---- MODULE Spec2Model ----
(***************************************************************************)
(* Model of the live trade monitor (trade_monitor.py) and of the market    *)
(* gate it polls (market_data.py).                                         *)
(*                                                                         *)
(* Money is counted in cents, percentages in hundredths of a percent, the  *)
(* time of day in minutes since midnight.  Trade objects live in a heap    *)
(* (objs) and are referred to by their index, so that the registry, the    *)
(* history log and a monitor thread's loop variable can alias one object   *)
(* as they do in the program.                                              *)
(***************************************************************************)
EXTENDS Integers, Sequences, FiniteSets, TLC

\* ------------------------------------------------------------------ bounds
\* trade objects ever created in one run
MaxTrades == 2
\* size of the space the truncated uuid is drawn from (2^32 in the program)
NumIds == 2
\* monitor-loop threads alive at the same time
MaxThreads == 1

\* ------------------------------------------------------------- value sets
\* Python's None for an optional number
None == -1000000

Symbols == {"AAPL", "TSLA", "ZOOM"}
IdSpace == 1 .. NumIds
ThreadIds == 1 .. MaxThreads

\* str.upper() on the strings the callers pass
Upper(s) ==
  CASE s = "aapl" -> "AAPL"
    [] s = "tsla" -> "TSLA"
    [] s = "zoom" -> "ZOOM"
    [] s = "stock" -> "STOCK"
    [] s = "call" -> "CALL"
    [] s = "put" -> "PUT"
    [] OTHER -> s

\* Python truthiness of an optional number: None and 0 are false
Truthy(x) == x # None /\ x # 0

Max(a, b) == IF a >= b THEN a ELSE b

\* arguments callers pass to add_trade; expiration_date is kept as the number
\* of whole days between the run and the date (None when absent)
ValidInputs ==
  { [symbol |-> "AAPL", option_type |-> "STOCK", entry_price |-> 15000,
     contracts |-> 10, strike_price |-> None, stop_loss |-> 14000,
     take_profit |-> 16500, expiration_date |-> None],
    [symbol |-> "tsla", option_type |-> "call", entry_price |-> 550,
     contracts |-> 2, strike_price |-> 25000, stop_loss |-> 400,
     take_profit |-> 800, expiration_date |-> 30],
    [symbol |-> "ZOOM", option_type |-> "STOCK", entry_price |-> 1000,
     contracts |-> 1, strike_price |-> None, stop_loss |-> None,
     take_profit |-> None, expiration_date |-> None] }

\* arguments with no contracts
ZeroContracts ==
  [symbol |-> "AAPL", option_type |-> "STOCK", entry_price |-> 15000,
   contracts |-> 0, strike_price |-> None, stop_loss |-> None,
   take_profit |-> None, expiration_date |-> None]

\* arguments with a zero entry price, and an option without a strike
InvalidInputs ==
  { ZeroContracts,
    [symbol |-> "AAPL", option_type |-> "CALL", entry_price |-> 0,
     contracts |-> 1, strike_price |-> 15000, stop_loss |-> None,
     take_profit |-> None, expiration_date |-> None],
    [symbol |-> "TSLA", option_type |-> "CALL", entry_price |-> 550,
     contracts |-> 1, strike_price |-> None, stop_loss |-> None,
     take_profit |-> None, expiration_date |-> None] }

\* the arguments the runs of the monitor draw from
TradeInputs == ValidInputs \cup {ZeroContracts}

\* close_price arguments of remove_trade
ClosePrices == {None, 0, -500, 17000}

\* prices the price source may report
FetchedPrices == {0, 1100, 16500, 26000}

\* ------------------------------------------------------------------ state
VARIABLES
  objs,               \* heap of Trade objects, indexed by reference
  active_trades,      \* dict trade_id -> Trade, as its entry array of
                      \* references in insertion order (0 = deleted entry)
  trade_history,      \* list of references
  monitoring_active,  \* the loop flag
  monitor_thread,     \* the thread last started (0 = None)
  threads,            \* the monitor-loop threads and their locals
  stop_requested,     \* history: stop_monitoring was called and monitoring
                      \* has not been started since
  calc                \* the call of a stateless function under study: its
                      \* arguments and, once it has returned, its result

vars == <<objs, active_trades, trade_history, monitoring_active,
          monitor_thread, threads, stop_requested, calc>>

\* dataclass Trade: a fresh trade built from add_trade's arguments
Trade(id, inp) ==
  [trade_id |-> id,
   symbol |-> Upper(inp.symbol),
   option_type |-> Upper(inp.option_type),
   entry_price |-> inp.entry_price,
   strike_price |-> inp.strike_price,
   expiration_date |-> inp.expiration_date,
   contracts |-> inp.contracts,
   current_price |-> 0,
   current_value |-> 0,
   pnl_dollar |-> 0,
   pnl_percent |-> 0,
   status |-> "ACTIVE",
   stop_loss |-> inp.stop_loss,
   take_profit |-> inp.take_profit,
   alerts_enabled |-> TRUE]

\* ----------------------------------------------------------- the registry
\* the dict active_trades: live references, membership, lookup, len()
LivePositions == {i \in DOMAIN active_trades : active_trades[i] # 0}

LiveRefs == {active_trades[i] : i \in LivePositions}

KeyPos(id) ==
  IF \E i \in LivePositions : objs[active_trades[i]].trade_id = id
  THEN CHOOSE i \in LivePositions : objs[active_trades[i]].trade_id = id
  ELSE 0

Contains(id) == KeyPos(id) # 0

ma_used == Cardinality(LivePositions)

\* active_trades[trade_id] = trade : an existing key keeps its entry, a new
\* key takes the next entry of the array
DictSet(id, ref) ==
  IF Contains(id) THEN [active_trades EXCEPT ![KeyPos(id)] = ref]
  ELSE Append(active_trades, ref)

\* del active_trades[trade_id] : the entry stays in the array as a dummy
DictDel(id) == [active_trades EXCEPT ![KeyPos(id)] = 0]

\* ------------------------------------------------------------- valuation
\* pnl / entry_value * 100, in hundredths of a percent (rounded down),
\* computed quotient first and in two steps of 100 to stay within TLC's
\* integers
PctOf(pnl, entry_value) ==
  (pnl \div entry_value) * 10000
  + (((pnl % entry_value) * 100) \div entry_value) * 100
  + ((((pnl % entry_value) * 100) % entry_value) * 100) \div entry_value

\* _update_trade_pnl with the intrinsic value of a PUT taken as a CALL's
update_trade_pnl_PutAsCall(t) ==
  IF t.current_price <= 0 THEN [trade |-> t, raised |-> "no"]
  ELSE IF t.option_type = "STOCK" THEN
    LET current_value == t.current_price * t.contracts
        entry_value == t.entry_price * t.contracts
        t1 == [t EXCEPT !.current_value = current_value,
                        !.pnl_dollar = current_value - entry_value]
    IN IF entry_value = 0
       THEN [trade |-> t1, raised |-> "ZeroDivisionError"]
       ELSE [trade |-> [t1 EXCEPT !.pnl_percent =
                                    PctOf(t1.pnl_dollar, entry_value)],
             raised |-> "no"]
  ELSE IF t.strike_price = None THEN [trade |-> t, raised |-> "TypeError"]
  ELSE
    LET intrinsic_value ==
          IF t.option_type = "CALL"
          THEN Max(0, t.current_price - t.strike_price)
          ELSE Max(0, t.current_price - t.strike_price)
        time_value ==
          IF t.option_type = "CALL"
          THEN Max(5, (t.entry_price
                       - Max(0, t.entry_price - t.strike_price)) \div 2)
          ELSE Max(5, (t.entry_price
                       - Max(0, t.strike_price - t.entry_price)) \div 2)
        estimated_premium == intrinsic_value + time_value
        current_value == estimated_premium * t.contracts * 100
        entry_value == t.entry_price * t.contracts * 100
        pnl == current_value - entry_value
    IN [trade |-> [t EXCEPT !.current_value = current_value,
                            !.pnl_dollar = pnl,
                            !.pnl_percent = IF entry_value > 0
                                            THEN PctOf(pnl, entry_value)
                                            ELSE 0],
        raised |-> "no"]

\* _update_trade_pnl: the trade as the call leaves it, and the exception it
\* raises ("no" when it returns)
update_trade_pnl(t) ==
  IF t.current_price <= 0 THEN [trade |-> t, raised |-> "no"]
  ELSE IF t.option_type = "STOCK" THEN
    LET current_value == t.current_price * t.contracts
        entry_value == t.entry_price * t.contracts
        t1 == [t EXCEPT !.current_value = current_value,
                        !.pnl_dollar = current_value - entry_value]
    IN IF entry_value = 0
       THEN [trade |-> t1, raised |-> "ZeroDivisionError"]
       ELSE [trade |-> [t1 EXCEPT !.pnl_percent =
                                    PctOf(t1.pnl_dollar, entry_value)],
             raised |-> "no"]
  ELSE IF t.strike_price = None THEN [trade |-> t, raised |-> "TypeError"]
  ELSE
    LET intrinsic_value ==
          IF t.option_type = "CALL"
          THEN Max(0, t.current_price - t.strike_price)
          ELSE Max(0, t.strike_price - t.current_price)
        time_value ==
          IF t.option_type = "CALL"
          THEN Max(5, (t.entry_price
                       - Max(0, t.entry_price - t.strike_price)) \div 2)
          ELSE Max(5, (t.entry_price
                       - Max(0, t.strike_price - t.entry_price)) \div 2)
        estimated_premium == intrinsic_value + time_value
        current_value == estimated_premium * t.contracts * 100
        entry_value == t.entry_price * t.contracts * 100
        pnl == current_value - entry_value
    IN [trade |-> [t EXCEPT !.current_value = current_value,
                            !.pnl_dollar = pnl,
                            !.pnl_percent = IF entry_value > 0
                                            THEN PctOf(pnl, entry_value)
                                            ELSE 0],
        raised |-> "no"]

\* ------------------------------------------------------ technical analysis
\* results of MarketDataEngine.analyze_technical_setup: {} when the history
\* is too short or the provider failed, else the rsi and the signal list
NoData == [empty |-> TRUE, rsi |-> 50, signals |-> {}]

Calm == [empty |-> FALSE, rsi |-> 50, signals |-> {"EMA Bullish Trend"}]

Overbought ==
  [empty |-> FALSE, rsi |-> 78,
   signals |-> {"RSI Overbought (Bearish)", "MACD Bearish Crossover",
                "EMA Bearish Trend"}]

\* MarketDataEngine.analyze_technical_setup(symbol), for the market the
\* runs are set in: a calm AAPL, an overbought TSLA, and ZOOM, a name of
\* the stock universe the provider has no history for
analyze_technical_setup(symbol) ==
  CASE symbol = "AAPL" -> Calm
    [] symbol = "TSLA" -> Overbought
    [] OTHER -> NoData

\* 'Bearish' in s or 'Overbought' in s
IsBearishSignal(s) ==
  s \in {"RSI Overbought (Bearish)", "MACD Bearish Crossover",
         "EMA Bearish Trend", "Below All EMAs (Strong Bearish)"}

\* 'Bullish' in s or 'Oversold' in s
IsBullishSignal(s) ==
  s \in {"RSI Oversold (Bullish)", "MACD Bullish Crossover",
         "EMA Bullish Trend", "Above All EMAs (Strong Bullish)"}

\* _analyze_trade_signals: the alert_level of the dict it returns; "absent"
\* is the early return whose dict has no 'alert_level' key
analyze_trade_signals(t) ==
  LET tech == analyze_technical_setup(t.symbol) IN
  IF tech.empty THEN "absent"
  ELSE
    LET l1 == IF Truthy(t.stop_loss) /\ t.current_price <= t.stop_loss
              THEN "HIGH" ELSE "LOW"
        l2 == IF Truthy(t.take_profit) /\ t.current_price >= t.take_profit
              THEN "HIGH" ELSE l1
        l3 == IF t.pnl_percent <= -2000 THEN "HIGH"
              ELSE IF t.pnl_percent >= 5000 THEN "MEDIUM" ELSE l2
        bearish == {s \in tech.signals : IsBearishSignal(s)}
        bullish == {s \in tech.signals : IsBullishSignal(s)}
        l4 == IF t.option_type = "CALL"
              THEN (IF Cardinality(bearish) >= 2 \/ tech.rsi > 75
                    THEN "MEDIUM" ELSE l3)
              ELSE IF t.option_type = "PUT"
              THEN (IF Cardinality(bullish) >= 2 \/ tech.rsi < 25
                    THEN "MEDIUM" ELSE l3)
              ELSE l3
        l5 == IF t.expiration_date # None
              THEN (IF t.expiration_date <= 1 THEN "HIGH"
                    ELSE IF t.expiration_date <= 7 THEN "MEDIUM" ELSE l4)
              ELSE l4
    IN l5

\* ------------------------------------------------ recommendation engine
\* the first value of the series taken for its last
LastOr0_First(series) == IF Len(series) > 0 THEN series[1] ELSE 0

\* series.iloc[-1] if len(series) > 0 else 0
LastOr0(series) == IF Len(series) > 0 THEN series[Len(series)] ELSE 0

\* a dict get_trading_recommendation returns; a key the dict does not have
\* reads as .get gives it: exit_signal and entry_signal False, macd_trend
\* "absent"
Recommendation(action, signal, strength) ==
  [action |-> action, signal |-> signal, strength |-> strength,
   exit_signal |-> FALSE, entry_signal |-> FALSE, macd_trend |-> "absent"]

\* get_trading_recommendation with rsi 70 itself counted as overbought
get_trading_recommendation_From70(rsi_value, macd_data) ==
  IF ~macd_data.given THEN
    IF rsi_value < 30
    THEN Recommendation("BUY CALL", "BULLISH",
                        IF rsi_value < 20 THEN "STRONG" ELSE "MODERATE")
    ELSE IF rsi_value > 70
    THEN Recommendation("BUY PUT", "BEARISH",
                        IF rsi_value > 80 THEN "STRONG" ELSE "MODERATE")
    ELSE Recommendation("HOLD", "NEUTRAL", "WEAK")
  ELSE
    LET current_macd == LastOr0(macd_data.macd)
        current_signal == LastOr0(macd_data.signal)
        two == Len(macd_data.macd) >= 2 /\ Len(macd_data.signal) >= 2
        prev_macd == macd_data.macd[Len(macd_data.macd) - 1]
        prev_signal == macd_data.signal[Len(macd_data.signal) - 1]
        macd_bullish_crossover ==
          two /\ prev_macd <= prev_signal /\ current_macd > current_signal
        macd_bearish_crossover ==
          two /\ prev_macd >= prev_signal /\ current_macd < current_signal
    IN IF rsi_value > 70 /\ macd_bearish_crossover
       THEN [Recommendation("SELL NOW", "STRONG BEARISH", "STRONG")
               EXCEPT !.exit_signal = TRUE]
       ELSE IF rsi_value < 30 /\ macd_bullish_crossover
       THEN [Recommendation("BUY STRONG", "STRONG BULLISH", "STRONG")
               EXCEPT !.entry_signal = TRUE]
       ELSE IF rsi_value >= 70
       THEN [Recommendation("REVIEW POSITION", "BEARISH", "MODERATE")
               EXCEPT !.macd_trend = IF current_macd < current_signal
                                     THEN "Bearish" ELSE "Bullish"]
       ELSE IF rsi_value < 30
       THEN [Recommendation("BUY OPPORTUNITY", "BULLISH", "MODERATE")
               EXCEPT !.macd_trend = IF current_macd > current_signal
                                     THEN "Bullish" ELSE "Bearish"]
       ELSE [Recommendation("HOLD", "NEUTRAL", "WEAK")
               EXCEPT !.macd_trend = IF current_macd > current_signal
                                     THEN "Bullish" ELSE "Bearish"]

\* get_trading_recommendation(rsi_value, macd_data): macd_data.given is
\* false for None, else macd_data holds the series 'macd' and 'signal' (the
\* 'histogram' series only words the reason)
get_trading_recommendation(rsi_value, macd_data) ==
  IF ~macd_data.given THEN
    IF rsi_value < 30
    THEN Recommendation("BUY CALL", "BULLISH",
                        IF rsi_value < 20 THEN "STRONG" ELSE "MODERATE")
    ELSE IF rsi_value > 70
    THEN Recommendation("BUY PUT", "BEARISH",
                        IF rsi_value > 80 THEN "STRONG" ELSE "MODERATE")
    ELSE Recommendation("HOLD", "NEUTRAL", "WEAK")
  ELSE
    LET current_macd == LastOr0(macd_data.macd)
        current_signal == LastOr0(macd_data.signal)
        two == Len(macd_data.macd) >= 2 /\ Len(macd_data.signal) >= 2
        prev_macd == macd_data.macd[Len(macd_data.macd) - 1]
        prev_signal == macd_data.signal[Len(macd_data.signal) - 1]
        macd_bullish_crossover ==
          two /\ prev_macd <= prev_signal /\ current_macd > current_signal
        macd_bearish_crossover ==
          two /\ prev_macd >= prev_signal /\ current_macd < current_signal
    IN IF rsi_value > 70 /\ macd_bearish_crossover
       THEN [Recommendation("SELL NOW", "STRONG BEARISH", "STRONG")
               EXCEPT !.exit_signal = TRUE]
       ELSE IF rsi_value < 30 /\ macd_bullish_crossover
       THEN [Recommendation("BUY STRONG", "STRONG BULLISH", "STRONG")
               EXCEPT !.entry_signal = TRUE]
       ELSE IF rsi_value > 70
       THEN [Recommendation("REVIEW POSITION", "BEARISH", "MODERATE")
               EXCEPT !.macd_trend = IF current_macd < current_signal
                                     THEN "Bearish" ELSE "Bullish"]
       ELSE IF rsi_value < 30
       THEN [Recommendation("BUY OPPORTUNITY", "BULLISH", "MODERATE")
               EXCEPT !.macd_trend = IF current_macd > current_signal
                                     THEN "Bullish" ELSE "Bearish"]
       ELSE [Recommendation("HOLD", "NEUTRAL", "WEAK")
               EXCEPT !.macd_trend = IF current_macd > current_signal
                                     THEN "Bullish" ELSE "Bearish"]

\* (current_price - entry_price) / entry_price * 100 compared with a whole
\* number of percent k, for entry_price > 0
PercentAbove(current_price, entry_price, k) ==
  (current_price - entry_price) * 100 > k * entry_price

\* the test pnl_percent < -10 passing at -10 itself
PercentBelow_OrEqual(current_price, entry_price, k) ==
  (current_price - entry_price) * 100 <= k * entry_price

PercentBelow(current_price, entry_price, k) ==
  (current_price - entry_price) * 100 < k * entry_price

\* analyze_for_exit_signal(rsi_value, macd_data, entry_price, current_price)
\* for prices >= 0: the recommendation with its alert_level, and the
\* exception the call raises ("no" when it returns)
analyze_for_exit_signal(rsi_value, macd_data, entry_price, current_price) ==
  LET recommendation == get_trading_recommendation(rsi_value, macd_data)
      level ==
        IF recommendation.exit_signal THEN "HIGH"
        ELSE IF recommendation.action = "REVIEW POSITION"
                /\ PercentAbove(current_price, entry_price, 10)
        THEN "MEDIUM"
        ELSE IF PercentBelow(current_price, entry_price, -10)
                /\ rsi_value < 40
        THEN "MEDIUM"
        ELSE "LOW"
  IN IF entry_price = 0
     THEN [recommendation |-> recommendation, alert_level |-> "absent",
           raised |-> "ZeroDivisionError"]
     ELSE [recommendation |-> recommendation, alert_level |-> level,
           raised |-> "no"]

\* --------------------------------------------------------- the market gate
\* sampled instants: weekday (0 = Monday) and minute of the day
Instants ==
  { [weekday |-> 4, minute |-> 569], [weekday |-> 4, minute |-> 720],
    [weekday |-> 4, minute |-> 961], [weekday |-> 5, minute |-> 720] }

\* is_market_open without its weekday test
is_market_open_AnyDay(now) == 570 <= now.minute /\ now.minute <= 960

\* MarketDataEngine.is_market_open at the instant now
is_market_open(now) ==
  IF now.weekday >= 5 THEN FALSE
  ELSE 570 <= now.minute /\ now.minute <= 960

\* ------------------------------------------------------ monitor threads
NoInstant == [weekday |-> -1, minute |-> -1]

\* the locals of a thread slot that runs no loop
NoLocals ==
  [pc |-> "none", price_data |-> [s \in Symbols |-> None], pos |-> 0,
   used |-> 0, left |-> 0, cur |-> 0, tick_now |-> NoInstant, sent |-> <<>>]

\* the locals of a loop outside the work of a tick
AtPc(pc) == [NoLocals EXCEPT !.pc = pc]

FreeSlots == {t \in DOMAIN threads : threads[t].pc = "none"}

MinOf(S) == CHOOSE x \in S : \A y \in S : x <= y

\* no call of a stateless function is under study
NoCall == [op |-> "none", args |-> <<>>, result |-> <<>>, done |-> FALSE]

\* TradeMonitor.__init__
Init ==
  /\ objs = <<>>
  /\ active_trades = <<>>
  /\ trade_history = <<>>
  /\ monitoring_active = FALSE
  /\ monitor_thread = 0
  /\ threads = [t \in ThreadIds |-> NoLocals]
  /\ stop_requested = FALSE
  /\ calc = NoCall

\* a start that returns early when a thread object exists, whatever the
\* flag says
start_monitoring_effect_ThreadTest ==
  IF monitoring_active \/ monitor_thread # 0
  THEN <<monitoring_active, monitor_thread, threads, stop_requested>>
  ELSE LET t == MinOf(FreeSlots)
       IN <<TRUE, t, [threads EXCEPT ![t] = AtPc("check")], FALSE>>

\* start_monitoring: the flag, the thread object and the slot it runs in
\* after the call, as <<monitoring_active, monitor_thread, threads>>
start_monitoring_effect ==
  IF monitoring_active
  THEN <<monitoring_active, monitor_thread, threads, stop_requested>>
  ELSE LET t == MinOf(FreeSlots)
       IN <<TRUE, t, [threads EXCEPT ![t] = AtPc("check")], FALSE>>

\* the call can be taken while a thread slot is left for the loop it starts
CanStart == monitoring_active \/ FreeSlots # {}

start_monitoring ==
  /\ CanStart
  /\ monitoring_active' = start_monitoring_effect[1]
  /\ monitor_thread' = start_monitoring_effect[2]
  /\ threads' = start_monitoring_effect[3]
  /\ stop_requested' = start_monitoring_effect[4]
  /\ UNCHANGED <<objs, active_trades, trade_history, calc>>

\* stop_monitoring: clears the flag; the join waits at most 5 s and changes
\* nothing
stop_monitoring ==
  /\ monitoring_active' = FALSE
  /\ stop_requested' = TRUE
  /\ UNCHANGED <<objs, active_trades, trade_history, monitor_thread,
                 threads, calc>>

\* add_trade(symbol, option_type, entry_price, contracts, ...), where id is
\* the value str(uuid.uuid4())[:8] takes; the call returns id
add_trade(inp, id) ==
  /\ Len(objs) < MaxTrades
  /\ CanStart
  /\ objs' = Append(objs, Trade(id, inp))
  /\ active_trades' = DictSet(id, Len(objs) + 1)
  /\ monitoring_active' = start_monitoring_effect[1]
  /\ monitor_thread' = start_monitoring_effect[2]
  /\ threads' = start_monitoring_effect[3]
  /\ stop_requested' = start_monitoring_effect[4]
  /\ UNCHANGED <<trade_history, calc>>

\* the trade remove_trade works on, as the call leaves it when a close
\* price is given, and the exception _update_trade_pnl raises on it
Closing(id, close_price) ==
  update_trade_pnl([objs[active_trades[KeyPos(id)]] EXCEPT
                      !.current_price = close_price, !.status = "CLOSED"])

\* what remove_trade(trade_id, close_price) returns: "True", "False", or
\* "raise" when the exception of _update_trade_pnl leaves the call
remove_trade_result(id, close_price) ==
  IF ~Contains(id) THEN "False"
  ELSE IF Truthy(close_price) /\ Closing(id, close_price).raised # "no"
  THEN "raise"
  ELSE "True"

\* remove_trade(trade_id, close_price)
remove_trade(id, close_price) ==
  /\ CASE remove_trade_result(id, close_price) = "False" ->
            UNCHANGED <<objs, active_trades, trade_history>>
       [] remove_trade_result(id, close_price) = "raise" ->
            /\ objs' = [objs EXCEPT ![active_trades[KeyPos(id)]] =
                                      Closing(id, close_price).trade]
            /\ UNCHANGED <<active_trades, trade_history>>
       [] OTHER ->
            /\ objs' = IF Truthy(close_price)
                       THEN [objs EXCEPT ![active_trades[KeyPos(id)]] =
                                           Closing(id, close_price).trade]
                       ELSE objs
            /\ trade_history' = Append(trade_history,
                                       active_trades[KeyPos(id)])
            /\ active_trades' = DictDel(id)
  /\ UNCHANGED <<monitoring_active, monitor_thread, threads,
                 stop_requested, calc>>

\* what get_trade_status(trade_id) returns: the reference of the trade the
\* view is made of, 0 for None
get_trade_status_result(id) ==
  IF Contains(id) THEN active_trades[KeyPos(id)] ELSE 0

\* get_trade_status(trade_id): reads only
get_trade_status(id) ==
  /\ get_trade_status_result(id) \in {0} \cup DOMAIN objs
  /\ UNCHANGED vars

\* ------------------------------------------------------- the monitor loop
\* next() of an iterator over active_trades.values() held by thread t:
\* "raise" (RuntimeError: the dict changed size since the iterator was
\* made), "stop" (no entry left) or "yield"; an entry met after the
\* iterator has already given as many values as the dict had is an error in
\* recent interpreters and a value in older ones
NextEntries(t) == {i \in LivePositions : i >= threads[t].pos}

DictNextOutcomes(t) ==
  IF threads[t].used # ma_used THEN {"raise"}
  ELSE IF NextEntries(t) = {} THEN {"stop"}
  ELSE IF threads[t].left = 0 THEN {"raise", "yield"}
  ELSE {"yield"}

\* the locals after next() has given the entry at position i
Advance(l, i) ==
  [l EXCEPT !.pos = i + 1, !.left = IF l.left > 0 THEN l.left - 1 ELSE 0]

\* a loop head that does not read the flag
MonitorCheck_NoFlag(t) ==
  /\ threads[t].pc = "check"
  /\ threads' = [threads EXCEPT ![t] = AtPc("gate")]
  /\ UNCHANGED <<objs, active_trades, trade_history, monitoring_active,
                 monitor_thread, stop_requested, calc>>

\* while self.monitoring_active: the thread ends when the flag is down
MonitorCheck(t) ==
  /\ threads[t].pc = "check"
  /\ threads' = [threads EXCEPT ![t] =
                   IF monitoring_active THEN AtPc("gate") ELSE NoLocals]
  /\ UNCHANGED <<objs, active_trades, trade_history, monitoring_active,
                 monitor_thread, stop_requested, calc>>

\* the work of a tick is done when the market is open and there are trades
GateOpen(now) == is_market_open(now) /\ ma_used > 0

\* if self.market_engine.is_market_open() and self.active_trades, read at
\* the instant now; a tick without work goes to its sleep
MonitorGate(t) ==
  /\ threads[t].pc = "gate"
  /\ \E now \in Instants :
       threads' = [threads EXCEPT ![t] =
                     IF GateOpen(now)
                     THEN [@ EXCEPT !.tick_now = now, !.pc = "fetch"]
                     ELSE [AtPc("sleep") EXCEPT !.tick_now = now]]
  /\ UNCHANGED <<objs, active_trades, trade_history, monitoring_active,
                 monitor_thread, stop_requested, calc>>

\* the price a fetch may give for a symbol
PricesOf(symbol) ==
  CASE symbol = "AAPL" -> {0, 16500}
    [] symbol = "TSLA" -> {0, 26000}
    [] OTHER -> {0, 1100}

\* the price maps _get_batch_prices may return for the symbols asked: a
\* symbol whose fetch failed has no key
PriceMaps(symbols) ==
  {pd \in [Symbols -> FetchedPrices \cup {None}] :
     \A s \in Symbols :
       IF s \in symbols THEN pd[s] \in PricesOf(s) \cup {None}
       ELSE pd[s] = None}

\* _update_all_trades up to the head of its loop
MonitorFetch(t) ==
  /\ threads[t].pc = "fetch"
  /\ \E pd \in PriceMaps({objs[r].symbol : r \in LiveRefs}) :
       threads' = [threads EXCEPT ![t] =
                     [@ EXCEPT !.price_data = pd, !.pc = "update",
                               !.pos = 1, !.used = ma_used,
                               !.left = ma_used]]
  /\ UNCHANGED <<objs, active_trades, trade_history, monitoring_active,
                 monitor_thread, stop_requested, calc>>

\* one turn of the loop of _update_all_trades, up to the assignment of
\* trade.current_price; an exception is caught by the loop, which sleeps
MonitorUpdate(t) ==
  /\ threads[t].pc = "update"
  /\ \E out \in DictNextOutcomes(t) :
       CASE out = "raise" ->
              /\ threads' = [threads EXCEPT ![t] = AtPc("sleep")]
              /\ objs' = objs
         [] out = "stop" ->
              /\ threads' = [threads EXCEPT ![t] =
                               [AtPc("alerts") EXCEPT
                                  !.tick_now = threads[t].tick_now, !.pos = 1,
                                  !.used = ma_used, !.left = ma_used]]
              /\ objs' = objs
         [] out = "yield" ->
              LET i == MinOf(NextEntries(t))
                  ref == active_trades[i]
                  price == threads[t].price_data[objs[ref].symbol]
              IN IF price # None
                 THEN /\ objs' = [objs EXCEPT ![ref].current_price = price]
                      /\ threads' = [threads EXCEPT ![t] =
                                       [Advance(@, i) EXCEPT !.pc = "pnl",
                                                             !.cur = ref]]
                 ELSE /\ objs' = objs
                      /\ threads' = [threads EXCEPT ![t] = Advance(@, i)]
  /\ UNCHANGED <<active_trades, trade_history, monitoring_active,
                 monitor_thread, stop_requested, calc>>

\* a loop without its handler: the exception of _update_trade_pnl ends the
\* thread
MonitorPnl_Uncaught(t) ==
  /\ threads[t].pc = "pnl"
  /\ LET upd == update_trade_pnl(objs[threads[t].cur])
     IN /\ objs' = [objs EXCEPT ![threads[t].cur] = upd.trade]
        /\ threads' = [threads EXCEPT ![t] =
                         IF upd.raised # "no" THEN NoLocals
                         ELSE [@ EXCEPT !.pc = "update", !.cur = 0]]
  /\ UNCHANGED <<active_trades, trade_history, monitoring_active,
                 monitor_thread, stop_requested, calc>>

\* self._update_trade_pnl(trade) in the loop of _update_all_trades
MonitorPnl(t) ==
  /\ threads[t].pc = "pnl"
  /\ LET upd == update_trade_pnl(objs[threads[t].cur])
     IN /\ objs' = [objs EXCEPT ![threads[t].cur] = upd.trade]
        /\ threads' = [threads EXCEPT ![t] =
                         IF upd.raised # "no" THEN AtPc("sleep")
                         ELSE [@ EXCEPT !.pc = "update", !.cur = 0]]
  /\ UNCHANGED <<active_trades, trade_history, monitoring_active,
                 monitor_thread, stop_requested, calc>>

\* the locals after one turn of the loop of _check_alerts on the trade at
\* position i: sent lists the trades _send_alert was called for in this
\* tick; reading 'alert_level' from a dict without it is a KeyError
CheckAlert(l, i) ==
  LET trade == objs[active_trades[i]]
      level == analyze_trade_signals(trade)
  IN IF ~trade.alerts_enabled THEN Advance(l, i)
     ELSE IF level = "absent" THEN AtPc("sleep")
     ELSE IF level = "HIGH"
     THEN [Advance(l, i) EXCEPT !.sent = Append(@, active_trades[i])]
     ELSE Advance(l, i)

\* one turn of the loop of _check_alerts; the tick ends with the loop
MonitorAlert(t) ==
  /\ threads[t].pc = "alerts"
  /\ \E out \in DictNextOutcomes(t) :
       threads' = [threads EXCEPT ![t] =
                     CASE out = "raise" -> AtPc("sleep")
                       [] out = "stop" -> AtPc("sleep")
                       [] out = "yield" ->
                            CheckAlert(@, MinOf(NextEntries(t)))]
  /\ UNCHANGED <<objs, active_trades, trade_history, monitoring_active,
                 monitor_thread, stop_requested, calc>>

\* a sleep that resumes inside the loop body, past the test of the flag
MonitorWake_PastTest(t) ==
  /\ threads[t].pc = "sleep"
  /\ threads' = [threads EXCEPT ![t] = AtPc("gate")]
  /\ UNCHANGED <<objs, active_trades, trade_history, monitoring_active,
                 monitor_thread, stop_requested, calc>>

\* time.sleep(30) returns: back to the head of the loop
MonitorWake(t) ==
  /\ threads[t].pc = "sleep"
  /\ threads' = [threads EXCEPT ![t] = AtPc("check")]
  /\ UNCHANGED <<objs, active_trades, trade_history, monitoring_active,
                 monitor_thread, stop_requested, calc>>

MonitorStep(t) ==
  \/ MonitorCheck(t)
  \/ MonitorGate(t)
  \/ MonitorFetch(t)
  \/ MonitorUpdate(t)
  \/ MonitorPnl(t)
  \/ MonitorAlert(t)
  \/ MonitorWake(t)

Next ==
  \/ \E inp \in TradeInputs, id \in IdSpace : add_trade(inp, id)
  \/ \E id \in IdSpace, close_price \in ClosePrices :
       remove_trade(id, close_price)
  \/ \E id \in IdSpace : get_trade_status(id)
  \/ start_monitoring
  \/ stop_monitoring
  \/ \E t \in ThreadIds : MonitorStep(t)

Spec == Init /\ [][Next]_vars

\* no tick is in flight: every loop is at its head or asleep
Quiet == \A t \in ThreadIds : threads[t].pc \in {"none", "check", "sleep"}

\* the runs in which callers act only between ticks
SeqNext ==
  \/ Quiet /\ \E inp \in TradeInputs, id \in IdSpace : add_trade(inp, id)
  \/ Quiet /\ \E id \in IdSpace, close_price \in ClosePrices :
                remove_trade(id, close_price)
  \/ Quiet /\ \E id \in IdSpace : get_trade_status(id)
  \/ Quiet /\ start_monitoring
  \/ Quiet /\ stop_monitoring
  \/ \E t \in ThreadIds : MonitorStep(t)

SeqSpec == Init /\ [][SeqNext]_vars

\* a running loop thread is scheduled again and again, its sleep and its
\* price fetch return
FairSpec ==
  Init /\ [][Next]_vars /\ \A t \in ThreadIds : WF_vars(MonitorStep(t))

\* ------------------------------------------------- starting and stopping
\* the loops that can be alive at once in the runs that start and stop
\* monitoring: threading.Thread objects are made without limit, one more
\* than ThreadIds is enough to see a loop outlive the stop that was meant
\* to end it
LoopSlots == 1 .. MaxThreads + 1

\* the loops that have been started and have not ended
RunningLoops == {t \in DOMAIN threads : threads[t].pc # "none"}

\* the arguments of add_trade in these runs
LoopInputs == {inp \in ValidInputs : inp.symbol = "AAPL"}

\* TradeMonitor.__init__
LoopInit ==
  /\ objs = <<>>
  /\ active_trades = <<>>
  /\ trade_history = <<>>
  /\ monitoring_active = FALSE
  /\ monitor_thread = 0
  /\ threads = [t \in LoopSlots |-> NoLocals]
  /\ stop_requested = FALSE
  /\ calc = NoCall

LoopNext ==
  \/ \E inp \in LoopInputs, id \in IdSpace : add_trade(inp, id)
  \/ start_monitoring
  \/ stop_monitoring
  \/ \E t \in LoopSlots : MonitorStep(t)

LoopSpec == LoopInit /\ [][LoopNext]_vars

\* ------------------------------------------- calls of stateless functions
MonitorVars ==
  <<objs, active_trades, trade_history, monitoring_active, monitor_thread,
    threads, stop_requested>>

\* the monitor as constructed, with no trade opened
FreshMonitor ==
  /\ objs = <<>>
  /\ active_trades = <<>>
  /\ trade_history = <<>>
  /\ monitoring_active = FALSE
  /\ monitor_thread = 0
  /\ threads = [t \in ThreadIds |-> NoLocals]
  /\ stop_requested = FALSE

\* a call of op with its arguments, before and after it returns
Call(op, args) == [op |-> op, args |-> args, result |-> <<>>, done |-> FALSE]

Return(result) == [calc EXCEPT !.result = result, !.done = TRUE]

\* trades a price is applied to: stocks and options in and out of the money
PnlInputs ==
  { [symbol |-> "AAPL", option_type |-> "STOCK", entry_price |-> e,
     contracts |-> c, strike_price |-> None, stop_loss |-> None,
     take_profit |-> None, expiration_date |-> None] :
      e \in {1000, 15000}, c \in {1, 10} }
  \cup
  { [symbol |-> "TSLA", option_type |-> k, entry_price |-> e,
     contracts |-> c, strike_price |-> st, stop_loss |-> None,
     take_profit |-> None, expiration_date |-> None] :
      k \in {"CALL", "PUT"}, e \in {4, 550, 1000}, c \in {1, 2},
      st \in {500, 25000} }

PnlPrices == {1, 400, 16500, 26000}

\* trade.current_price = price; self._update_trade_pnl(trade)
apply_price ==
  /\ calc.op = "apply_price"
  /\ ~calc.done
  /\ calc' = Return(update_trade_pnl([calc.args.trade EXCEPT
                                        !.current_price = calc.args.price]))
  /\ UNCHANGED MonitorVars

PnlInit ==
  /\ FreshMonitor
  /\ \E inp \in PnlInputs, price \in PnlPrices :
       calc = Call("apply_price", [trade |-> Trade(1, inp), price |-> price])

PnlNext == apply_price

PnlSpec == PnlInit /\ [][PnlNext]_vars

\* ------------------------------------------------------ portfolio summary
\* list(self.active_trades.values()): the references in insertion order
ActiveList == SelectSeq(active_trades, LAMBDA r : r # 0)

\* entry_price * contracts * (100 if option_type in ['CALL', 'PUT'] else 1)
Invested(t) ==
  t.entry_price * t.contracts
  * (IF t.option_type \in {"CALL", "PUT"} THEN 100 ELSE 1)

\* sum(... for trade in trades) over the first n trades of a list
RECURSIVE SumPnl(_, _)
SumPnl(trades, n) ==
  IF n = 0 THEN 0 ELSE SumPnl(trades, n - 1) + objs[trades[n]].pnl_dollar

RECURSIVE SumInvested(_, _)
SumInvested(trades, n) ==
  IF n = 0 THEN 0 ELSE SumInvested(trades, n - 1) + Invested(objs[trades[n]])

\* max(trades, key=...) and min(trades, key=...): the first trade of the
\* list with the largest, the smallest, pnl_percent
BestOf(trades) ==
  trades[MinOf({i \in DOMAIN trades :
                  \A j \in DOMAIN trades :
                    objs[trades[j]].pnl_percent
                      <= objs[trades[i]].pnl_percent})]

WorstOf(trades) ==
  trades[MinOf({i \in DOMAIN trades :
                  \A j \in DOMAIN trades :
                    objs[trades[j]].pnl_percent
                      >= objs[trades[i]].pnl_percent})]

\* the 'best_performer' / 'worst_performer' entry of the summary
Performer(ref) ==
  IF ref = 0 THEN [symbol |-> "None", pnl_percent |-> None]
  ELSE [symbol |-> objs[ref].symbol, pnl_percent |-> objs[ref].pnl_percent]

\* the dict a summary over the given list of trades is; amounts are whole
\* cents and percents whole hundredths, which round(x, 2) leaves as they
\* are; the dict of an empty registry has no 'total_pnl_percent'
SummaryOf(trades) ==
  IF Len(trades) = 0
  THEN [total_trades |-> 0, total_pnl |-> 0, total_invested |-> 0,
        total_pnl_percent |-> None, best_performer |-> Performer(0),
        worst_performer |-> Performer(0)]
  ELSE
    LET total_pnl == SumPnl(trades, Len(trades))
        total_invested == SumInvested(trades, Len(trades))
    IN [total_trades |-> Len(trades),
        total_pnl |-> total_pnl,
        total_invested |-> total_invested,
        total_pnl_percent |-> IF total_invested > 0
                              THEN PctOf(total_pnl, total_invested) ELSE 0,
        best_performer |-> Performer(BestOf(trades)),
        worst_performer |-> Performer(WorstOf(trades))]

\* a summary that counts the closed trades of the history with the active
get_portfolio_summary_result_WithHistory ==
  SummaryOf(ActiveList \o trade_history)

\* what get_portfolio_summary() returns
get_portfolio_summary_result == SummaryOf(ActiveList)

\* calls of get_portfolio_summary in one run
MaxCalls == 2

\* get_portfolio_summary(): reads only; the call is recorded with the
\* registry it was made on
get_portfolio_summary ==
  /\ calc.op = "get_portfolio_summary"
  /\ Len(calc.result) < MaxCalls
  /\ calc' = [calc EXCEPT
                !.result = Append(@, [summary |-> get_portfolio_summary_result,
                                      on |-> <<objs, active_trades,
                                               trade_history>>]),
                !.done = TRUE]
  /\ UNCHANGED MonitorVars

\* a trade of the registry after the ticks so far: never priced, or valued
\* at the price last fetched for its symbol
Priced(t, price) == update_trade_pnl([t EXCEPT !.current_price = price]).trade

PricedTrades(id) ==
  {Priced(Trade(id, inp), price) :
     inp \in ValidInputs, price \in FetchedPrices \ {0}}
  \cup {Trade(id, inp) : inp \in ValidInputs}

\* registries of valid trades with distinct ids, the monitor asleep between
\* two ticks
SumInit ==
  /\ \E n \in 0 .. MinOf({MaxTrades, NumIds}) :
       /\ objs \in [1 .. n -> UNION {PricedTrades(id) : id \in IdSpace}]
       /\ \A i \in 1 .. n : objs[i].trade_id = i
       /\ active_trades = [i \in 1 .. n |-> i]
       /\ monitoring_active = (n > 0)
       /\ monitor_thread = IF n > 0 THEN 1 ELSE 0
       /\ threads = [t \in ThreadIds |->
                       IF n > 0 /\ t = 1 THEN AtPc("sleep") ELSE NoLocals]
  /\ trade_history = <<>>
  /\ stop_requested = FALSE
  /\ calc = Call("get_portfolio_summary", <<>>)

SumNext ==
  \/ get_portfolio_summary
  \/ \E id \in IdSpace, close_price \in ClosePrices :
       remove_trade(id, close_price)

SumSpec == SumInit /\ [][SumNext]_vars

\* ------------------------------------------- calls of the recommendations
\* rsi values around the thresholds 20, 30, 40, 70 and 80
RsiValues == {15, 25, 30, 35, 40, 55, 70, 75, 85}

\* MACD data: None, or 'macd' and 'signal' series of up to two bars
MacdBars == {-1, 0, 1}

MacdSeries == {<<>>} \cup {<<a>> : a \in MacdBars}
              \cup {<<a, b>> : a \in MacdBars, b \in MacdBars}

MacdInputs ==
  {[given |-> FALSE, macd |-> <<>>, signal |-> <<>>]}
  \cup {[given |-> TRUE, macd |-> m, signal |-> sg] :
          m \in MacdSeries, sg \in {<<>>, <<0>>, <<0, 0>>, <<1, 0>>}}

\* entry prices the position tracker accepts (it rejects entry_price <= 0)
\* and current prices 20 and 10 percent below and above
EntryPrices == {10000}

CurrentPrices == {8000, 9000, 11000, 12000}

call_get_trading_recommendation ==
  /\ calc.op = "get_trading_recommendation"
  /\ ~calc.done
  /\ calc' = Return(get_trading_recommendation(calc.args.rsi_value,
                                               calc.args.macd_data))
  /\ UNCHANGED MonitorVars

call_analyze_for_exit_signal ==
  /\ calc.op = "analyze_for_exit_signal"
  /\ ~calc.done
  /\ calc' = Return(analyze_for_exit_signal(calc.args.rsi_value,
                                            calc.args.macd_data,
                                            calc.args.entry_price,
                                            calc.args.current_price))
  /\ UNCHANGED MonitorVars

RecInit ==
  /\ FreshMonitor
  /\ \E rsi \in RsiValues, md \in MacdInputs :
       \/ calc = Call("get_trading_recommendation",
                      [rsi_value |-> rsi, macd_data |-> md])
       \/ \E entry \in EntryPrices, current \in CurrentPrices :
            calc = Call("analyze_for_exit_signal",
                        [rsi_value |-> rsi, macd_data |-> md,
                         entry_price |-> entry, current_price |-> current])

RecNext == call_get_trading_recommendation \/ call_analyze_for_exit_signal

RecSpec == RecInit /\ [][RecNext]_vars

\* ------------------------------------------------ the market session clock
\* the boundaries of the sessions, in minutes of the day: time(4, 0),
\* time(9, 30), time(16, 0), time(20, 0)
pre_market_start == 240

market_open == 570

market_close == 960

after_hours_end == 1200

\* the clock with the minute of the close still in the regular session
get_market_status_CloseIncluded(now) ==
  IF now.weekday >= 5
  THEN [status |-> "CLOSED", next_session |-> "Monday 9:30 AM EST",
        is_trading_hours |-> FALSE]
  ELSE IF now.minute < pre_market_start
  THEN [status |-> "CLOSED", next_session |-> "Today 4:00 AM EST",
        is_trading_hours |-> FALSE]
  ELSE IF pre_market_start <= now.minute /\ now.minute < market_open
  THEN [status |-> "PRE_MARKET",
        next_session |-> "Today 9:30 AM EST (Regular Hours)",
        is_trading_hours |-> TRUE]
  ELSE IF market_open <= now.minute /\ now.minute <= market_close
  THEN [status |-> "OPEN",
        next_session |-> "Today 4:00 PM EST (Market Close)",
        is_trading_hours |-> TRUE]
  ELSE IF market_close < now.minute /\ now.minute < after_hours_end
  THEN [status |-> "AFTER_HOURS", next_session |-> "Tomorrow 4:00 AM EST",
        is_trading_hours |-> TRUE]
  ELSE [status |-> "CLOSED", next_session |-> "Tomorrow 4:00 AM EST",
        is_trading_hours |-> FALSE]

\* strategy_bot.get_market_status() at the instant now of the market's
\* timezone: weekday (0 = Monday) and minute of the day
get_market_status(now) ==
  IF now.weekday >= 5
  THEN [status |-> "CLOSED", next_session |-> "Monday 9:30 AM EST",
        is_trading_hours |-> FALSE]
  ELSE IF now.minute < pre_market_start
  THEN [status |-> "CLOSED", next_session |-> "Today 4:00 AM EST",
        is_trading_hours |-> FALSE]
  ELSE IF pre_market_start <= now.minute /\ now.minute < market_open
  THEN [status |-> "PRE_MARKET",
        next_session |-> "Today 9:30 AM EST (Regular Hours)",
        is_trading_hours |-> TRUE]
  ELSE IF market_open <= now.minute /\ now.minute < market_close
  THEN [status |-> "OPEN",
        next_session |-> "Today 4:00 PM EST (Market Close)",
        is_trading_hours |-> TRUE]
  ELSE IF market_close <= now.minute /\ now.minute < after_hours_end
  THEN [status |-> "AFTER_HOURS", next_session |-> "Tomorrow 4:00 AM EST",
        is_trading_hours |-> TRUE]
  ELSE [status |-> "CLOSED", next_session |-> "Tomorrow 4:00 AM EST",
        is_trading_hours |-> FALSE]

\* every minute of every day of the week
ClockInstants == [weekday : 0 .. 6, minute : 0 .. 1439]

call_get_market_status ==
  /\ calc.op = "get_market_status"
  /\ ~calc.done
  /\ calc' = Return(get_market_status(calc.args))
  /\ UNCHANGED MonitorVars

ClockInit ==
  /\ FreshMonitor
  /\ \E now \in ClockInstants : calc = Call("get_market_status", now)

ClockNext == call_get_market_status

ClockSpec == ClockInit /\ [][ClockNext]_vars

\* ------------------------------------------------ the two market clocks
\* is_market_open and get_market_status read at one instant, the first
\* microsecond of a minute of US/Eastern time
read_market_clocks ==
  /\ calc.op = "market_clocks"
  /\ ~calc.done
  /\ calc' = Return([is_open |-> is_market_open(calc.args),
                     status |-> get_market_status(calc.args).status])
  /\ UNCHANGED MonitorVars

GateInit ==
  /\ FreshMonitor
  /\ \E now \in ClockInstants : calc = Call("market_clocks", now)

GateNext == read_market_clocks

GateSpec == GateInit /\ [][GateNext]_vars

\* -------------------------------------------------------------- the RSI
\* bars of a price series given to calculate_rsi
MaxBars == 4

\* the default of the period argument
DefaultPeriod == 14

RECURSIVE Power(_, _)
Power(b, n) == IF n = 0 THEN 1 ELSE b * Power(b, n - 1)

\* delta.where(delta > 0, 0) at bar i, delta = prices.diff(): the first
\* bar has no delta (NaN), which no comparison holds of
Gain(prices, i) ==
  IF i > 1 /\ prices[i] - prices[i - 1] > 0
  THEN prices[i] - prices[i - 1] ELSE 0

\* -delta.where(delta < 0, 0) at bar i
Loss(prices, i) ==
  IF i > 1 /\ prices[i] - prices[i - 1] < 0
  THEN prices[i - 1] - prices[i] ELSE 0

\* x.ewm(span=period, adjust=False).mean() at bar i, times
\* (period + 1)^(i - 1): y[1] = x[1], y[i] = (1 - a)*y[i-1] + a*x[i] with
\* a = 2 / (period + 1)
RECURSIVE AvgGain(_, _, _)
AvgGain(prices, i, period) ==
  IF i = 1 THEN Gain(prices, 1)
  ELSE (period - 1) * AvgGain(prices, i - 1, period)
       + 2 * Gain(prices, i) * Power(period + 1, i - 2)

RECURSIVE AvgLoss(_, _, _)
AvgLoss(prices, i, period) ==
  IF i = 1 THEN Loss(prices, 1)
  ELSE (period - 1) * AvgLoss(prices, i - 1, period)
       + 2 * Loss(prices, i) * Power(period + 1, i - 2)

\* 100 - (100 / (1 + rs)) for rs = avg_gains / avg_losses in floating
\* point, where 0/0 is NaN and x/0 is infinite for x > 0 (100/(1 + rs) is
\* then 0, whatever the sign of the zero); else the fraction
\* 100 * gain / (gain + loss)
RsiOf(avg_gain, avg_loss) ==
  IF avg_loss = 0
  THEN IF avg_gain = 0 THEN [kind |-> "nan", num |-> 0, den |-> 1]
       ELSE [kind |-> "number", num |-> 100, den |-> 1]
  ELSE [kind |-> "number", num |-> 100 * avg_gain,
        den |-> avg_gain + avg_loss]

\* calculate_rsi(prices, period): one value per bar
calculate_rsi(prices, period) ==
  [i \in DOMAIN prices |->
     RsiOf(AvgGain(prices, i, period), AvgLoss(prices, i, period))]

\* closing prices, and the series of one bar or more made of them
BarPrices == {1, 2, 3}

PriceSeries == UNION {[1 .. n -> BarPrices] : n \in 1 .. MaxBars}

call_calculate_rsi ==
  /\ calc.op = "calculate_rsi"
  /\ ~calc.done
  /\ calc' = Return(calculate_rsi(calc.args.prices, calc.args.period))
  /\ UNCHANGED MonitorVars

RsiInit ==
  /\ FreshMonitor
  /\ \E prices \in PriceSeries, period \in {2, DefaultPeriod} :
       calc = Call("calculate_rsi", [prices |-> prices, period |-> period])

RsiNext == call_calculate_rsi

RsiSpec == RsiInit /\ [][RsiNext]_vars

\* ====================================================== properties
InHistory(r) == \E i \in DOMAIN trade_history : trade_history[i] = r

\* a monitor thread has assigned current_price of trade r and has not yet
\* run _update_trade_pnl on it
MidUpdate(r) == \E t \in ThreadIds : threads[t].pc = "pnl" /\ threads[t].cur = r

\* the validation the registry is specified to apply to a new trade
IsValidTrade(t) ==
  /\ t.contracts > 0
  /\ t.entry_price > 0
  /\ (t.option_type \in {"CALL", "PUT"} => t.strike_price # None)

\* the valuation rule of the specification at the trade's current price, as
\* <<current_value, pnl_dollar, pnl_percent>>
RuleValue(t) ==
  IF t.option_type = "STOCK" THEN t.current_price * t.contracts
  ELSE LET intrinsic == IF t.option_type = "CALL"
                        THEN Max(0, t.current_price - t.strike_price)
                        ELSE Max(0, t.strike_price - t.current_price)
           inner == IF t.option_type = "CALL"
                    THEN Max(0, t.entry_price - t.strike_price)
                    ELSE Max(0, t.strike_price - t.entry_price)
       IN (intrinsic + Max(5, (t.entry_price - inner) \div 2))
          * t.contracts * 100

RuleEntryValue(t) ==
  IF t.option_type = "STOCK" THEN t.entry_price * t.contracts
  ELSE t.entry_price * t.contracts * 100

Rule(t) ==
  <<RuleValue(t), RuleValue(t) - RuleEntryValue(t),
    IF RuleEntryValue(t) = 0 THEN 0
    ELSE PctOf(RuleValue(t) - RuleEntryValue(t), RuleEntryValue(t))>>

Derived(t) == <<t.current_value, t.pnl_dollar, t.pnl_percent>>

\* no price has been applied to the trade
Untouched(t) == t.current_price = 0 /\ Derived(t) = <<0, 0, 0>>

\* C1: every trade ever opened has an id different from the ids of all the
\* trades opened before it, active or closed
C1_IdsNeverReused ==
  \A r1, r2 \in DOMAIN objs :
    r1 # r2 => objs[r1].trade_id # objs[r2].trade_id

\* C2: a trade with contracts <= 0, entry price <= 0 or an option without a
\* strike never enters the registry of active trades
C2_InvalidNeverActive == \A r \in LiveRefs : IsValidTrade(objs[r])

\* C3: outside the two steps of a monitor update, the derived fields of
\* every valid trade a price was applied to are those of the valuation rule
\* at its current price
C3_DerivedFollowPrice ==
  \A r \in DOMAIN objs :
    (IsValidTrade(objs[r]) /\ ~MidUpdate(r)) =>
      \/ Untouched(objs[r])
      \/ /\ objs[r].current_price > 0
         /\ (objs[r].option_type = "STOCK" \/ objs[r].strike_price # None)
         /\ Derived(objs[r]) = Rule(objs[r])

\* C4: applying a price <= 0 changes nothing: the current price of a trade
\* never changes to a value that is not positive
C4_NonPositivePriceIsNoOp ==
  [][\A r \in DOMAIN objs :
       objs'[r].current_price # objs[r].current_price
         => objs'[r].current_price > 0]_vars

\* C5: every trade in the history log has status CLOSED
C5_HistoryIsClosed ==
  \A i \in DOMAIN trade_history : objs[trade_history[i]].status = "CLOSED"

\* C6: a valid trade that was opened and not yet removed is the one its id
\* resolves to, and removing it returns True; an id that no trade has, or
\* whose trades were all removed, resolves to None and its removal returns
\* False
C6_ResolvableWhileActive ==
  /\ \A r \in DOMAIN objs :
       (IsValidTrade(objs[r]) /\ ~InHistory(r)) =>
         /\ get_trade_status_result(objs[r].trade_id) = r
         /\ \A cp \in ClosePrices :
              remove_trade_result(objs[r].trade_id, cp) = "True"
  /\ \A id \in IdSpace :
       (\A r \in DOMAIN objs : objs[r].trade_id = id => InHistory(r)) =>
         /\ get_trade_status_result(id) = 0
         /\ \A cp \in ClosePrices : remove_trade_result(id, cp) = "False"

\* the regular session at an instant: a weekday between 09:30 and 16:00
SessionOpenAt(now) ==
  now.weekday \in 0 .. 4 /\ now.minute >= 570 /\ now.minute <= 960

WorkPcs == {"fetch", "update", "pnl", "alerts"}

C8_NoTickAfterStop ==
  [][\A t \in ThreadIds :
       (threads[t].pc = "check" /\ threads'[t].pc = "gate")
         => ~stop_requested]_vars

\* the loop has ended on a stop request while trades are still active
C8_Witness ==
  /\ stop_requested
  /\ ma_used > 0
  /\ monitor_thread # 0
  /\ threads[monitor_thread].pc = "none"

SentCount(t, r) ==
  Cardinality({i \in DOMAIN threads[t].sent : threads[t].sent[i] = r})

\* C10: when a tick ends in the alert loop, one alert was sent for each
\* active trade with alerts enabled whose analysis gives HIGH, and none for
\* the others
C10_OneAlertPerHighTrade ==
  [][\A t \in ThreadIds :
       (threads[t].pc = "alerts" /\ threads'[t].pc = "sleep")
         => \A r \in LiveRefs :
              SentCount(t, r) =
                IF objs[r].alerts_enabled
                   /\ analyze_trade_signals(objs[r]) = "HIGH"
                THEN 1 ELSE 0]_vars

\* the MACD data of a technical snapshot: the last two bars of the MACD and
\* signal lines, crossing as the snapshot's signal list reports
MacdOf(tech) ==
  [given |-> TRUE,
   macd |-> IF "MACD Bearish Crossover" \in tech.signals THEN <<1, -1>>
            ELSE IF "MACD Bullish Crossover" \in tech.signals THEN <<-1, 1>>
            ELSE <<1, 1>>,
   signal |-> <<0, 0>>]

\* the alert tier the exit-signal analysis gives a trade on the technical
\* snapshot of its symbol
ExitTier(t) ==
  analyze_for_exit_signal(analyze_technical_setup(t.symbol).rsi,
                          MacdOf(analyze_technical_setup(t.symbol)),
                          t.entry_price, t.current_price).alert_level

\* the snapshot reports an exit signal: rsi > 70 with a bearish crossover
SnapshotExit(tech) ==
  tech.rsi > 70 /\ "MACD Bearish Crossover" \in tech.signals

\* C11: while a tick checks its alerts, the tier it gives every active
\* trade with technical data and a positive entry price is the tier of the
\* exit-signal analysis, and is HIGH exactly when the snapshot reports an
\* exit signal
C11_TierIsExitAnalysis ==
  \A t \in ThreadIds :
    threads[t].pc = "alerts" =>
      \A r \in LiveRefs :
        (~analyze_technical_setup(objs[r].symbol).empty
         /\ objs[r].entry_price > 0) =>
          /\ analyze_trade_signals(objs[r]) = ExitTier(objs[r])
          /\ (analyze_trade_signals(objs[r]) = "HIGH"
                <=> SnapshotExit(analyze_technical_setup(objs[r].symbol)))

\* C12: a price > 0 applied to a trade leaves it with the values of the
\* valuation rule: price*contracts against entry_price*contracts for STOCK,
\* (intrinsic + time value)*contracts*100 against entry_price*contracts*100
\* for CALL and, mirrored, PUT; pnl_dollar their difference and pnl_percent
\* its share of the entry value.  STOCK 150 -> 165 with 10 contracts gives
\* 150.00 and 10.00; CALL 5.50 strike 250 with 2 contracts at 260 gives
\* (10 + 2.75)*2*100
C12_ValuationRule ==
  (calc.op = "apply_price" /\ calc.done) =>
    LET t == [calc.args.trade EXCEPT !.current_price = calc.args.price]
        after == calc.result.trade
    IN /\ calc.result.raised = "no"
       /\ after.current_price = calc.args.price
       /\ Derived(after) =
            <<RuleValue(t), RuleValue(t) - RuleEntryValue(t),
              PctOf(RuleValue(t) - RuleEntryValue(t), RuleEntryValue(t))>>
       /\ (t.option_type = "STOCK" /\ t.entry_price = 15000
           /\ t.contracts = 10 /\ t.current_price = 16500)
            => Derived(after) = <<165000, 15000, 1000>>
       /\ (t.option_type = "CALL" /\ t.entry_price = 550
           /\ t.strike_price = 25000 /\ t.contracts = 2
           /\ t.current_price = 26000)
            => after.current_value = (1000 + 275) * 2 * 100

\* a PUT in the money has been valued
C12_Witness ==
  /\ calc.op = "apply_price"
  /\ calc.done
  /\ calc.args.trade.option_type = "PUT"
  /\ calc.args.price < calc.args.trade.strike_price
  /\ calc.result.trade.pnl_dollar > 0

\* C13: the valuation a tick is about to run on a trade of the registry
\* raises no ZeroDivisionError, and for an entry value of 0 it leaves
\* pnl_percent 0
C13_NeverDividesByZero ==
  \A t \in ThreadIds :
    threads[t].pc = "pnl" =>
      LET trade == objs[threads[t].cur]
          res == update_trade_pnl(trade)
      IN /\ res.raised # "ZeroDivisionError"
         /\ (trade.current_price > 0 /\ RuleEntryValue(trade) = 0)
              => res.trade.pnl_percent = 0

\* the sum of F over the set S
RECURSIVE SetSum(_, _)
SetSum(S, F) ==
  IF S = {} THEN 0
  ELSE LET x == CHOOSE y \in S : TRUE IN F[x] + SetSum(S \ {x}, F)

\* C14: a call of get_portfolio_summary changes neither the registry nor
\* the history nor a trade; its total_pnl is the sum of pnl_dollar and its
\* total_invested the sum of entry_price*contracts*(100 for CALL/PUT, 1 for
\* STOCK) over the active trades; and it returns the summary every earlier
\* call on the same registry returned
C14_SummaryReadOnlyIdempotent ==
  [][(calc.op = "get_portfolio_summary" /\ calc' # calc) =>
       LET new == calc'.result[Len(calc'.result)]
       IN /\ objs' = objs
          /\ active_trades' = active_trades
          /\ trade_history' = trade_history
          /\ new.summary.total_trades = Cardinality(LiveRefs)
          /\ new.summary.total_pnl =
               SetSum(LiveRefs, [r \in LiveRefs |-> objs[r].pnl_dollar])
          /\ new.summary.total_invested =
               SetSum(LiveRefs,
                      [r \in LiveRefs |->
                         objs[r].entry_price * objs[r].contracts
                         * (IF objs[r].option_type = "STOCK" THEN 1
                            ELSE 100)])
          /\ \A i \in DOMAIN calc.result :
               calc.result[i].on = new.on
                 => calc.result[i].summary = new.summary]_vars

\* two summaries were taken of a registry with a gain, one trade closed
C14_Witness ==
  /\ calc.op = "get_portfolio_summary"
  /\ Len(calc.result) = 2
  /\ calc.result[1].on = calc.result[2].on
  /\ calc.result[2].summary.total_pnl > 0
  /\ Len(trade_history) > 0

\* the last two bars of supplied MACD data
TwoBars(md) == md.given /\ Len(md.macd) >= 2 /\ Len(md.signal) >= 2

\* previous macd >= previous signal and current macd < current signal
BearishCross(md) ==
  /\ TwoBars(md)
  /\ md.macd[Len(md.macd) - 1] >= md.signal[Len(md.signal) - 1]
  /\ md.macd[Len(md.macd)] < md.signal[Len(md.signal)]

\* previous macd <= previous signal and current macd > current signal
BullishCross(md) ==
  /\ TwoBars(md)
  /\ md.macd[Len(md.macd) - 1] <= md.signal[Len(md.signal) - 1]
  /\ md.macd[Len(md.macd)] > md.signal[Len(md.signal)]

\* C15: analyze_for_exit_signal with rsi > 70 and a bearish crossover in
\* the last two bars returns SELL NOW with the exit-signal flag and alert
\* level HIGH, whatever the entry and current price
C15_BearishOverboughtIsSellNow ==
  (/\ calc.op = "analyze_for_exit_signal"
   /\ calc.done
   /\ calc.args.rsi_value > 70
   /\ BearishCross(calc.args.macd_data)) =>
    /\ calc.result.raised = "no"
    /\ calc.result.recommendation.action = "SELL NOW"
    /\ calc.result.recommendation.exit_signal
    /\ calc.result.alert_level = "HIGH"

\* rsi 75 with a bearish crossover has been analysed at a loss
C15_Witness ==
  /\ calc.op = "analyze_for_exit_signal"
  /\ calc.done
  /\ calc.args.rsi_value = 75
  /\ BearishCross(calc.args.macd_data)
  /\ calc.args.current_price < calc.args.entry_price

\* C16: with MACD data of two bars or more, get_trading_recommendation
\* follows the priority table: rsi > 70 with a bearish crossover gives SELL
\* NOW; rsi < 30 with a bullish crossover BUY STRONG with the entry-signal
\* flag; rsi > 70 otherwise REVIEW POSITION (MODERATE, BEARISH); rsi < 30
\* otherwise BUY OPPORTUNITY (MODERATE, BULLISH); any other rsi, 30 and 70
\* included, HOLD / NEUTRAL with trend Bullish iff macd > signal
C16_PriorityTable ==
  (/\ calc.op = "get_trading_recommendation"
   /\ calc.done
   /\ TwoBars(calc.args.macd_data)) =>
    LET rsi == calc.args.rsi_value
        md == calc.args.macd_data
        rec == calc.result
    IN CASE rsi > 70 /\ BearishCross(md) ->
              rec.action = "SELL NOW" /\ rec.exit_signal
         [] rsi < 30 /\ BullishCross(md) ->
              rec.action = "BUY STRONG" /\ rec.entry_signal
         [] rsi > 70 /\ ~BearishCross(md) ->
              /\ rec.action = "REVIEW POSITION"
              /\ rec.strength = "MODERATE"
              /\ rec.signal = "BEARISH"
              /\ ~rec.exit_signal
         [] rsi < 30 /\ ~BullishCross(md) ->
              /\ rec.action = "BUY OPPORTUNITY"
              /\ rec.strength = "MODERATE"
              /\ rec.signal = "BULLISH"
              /\ ~rec.entry_signal
         [] OTHER ->
              /\ rec.action = "HOLD"
              /\ rec.signal = "NEUTRAL"
              /\ ~rec.exit_signal
              /\ ~rec.entry_signal
              /\ (rec.macd_trend = "Bullish"
                    <=> md.macd[Len(md.macd)] > md.signal[Len(md.signal)])
              /\ rec.macd_trend \in {"Bullish", "Bearish"}

\* a recommendation was made at the boundary rsi = 70 on a bearish crossover
C16_Witness ==
  /\ calc.op = "get_trading_recommendation"
  /\ calc.done
  /\ calc.args.rsi_value = 70
  /\ BearishCross(calc.args.macd_data)
  /\ calc.result.action = "HOLD"

\* C17: the alert tier analyze_for_exit_signal returns is HIGH if the
\* recommendation is an exit signal; otherwise MEDIUM if the action is
\* REVIEW POSITION and the pnl percent is above 10, or if the pnl percent is
\* below -10 and rsi < 40; otherwise LOW; the pnl percent being
\* (current - entry) / entry * 100
C17_TierDerivation ==
  (calc.op = "analyze_for_exit_signal" /\ calc.done) =>
    LET rsi == calc.args.rsi_value
        entry == calc.args.entry_price
        current == calc.args.current_price
        rec == calc.result.recommendation
        gain == current - entry
    IN /\ calc.result.raised = "no"
       /\ calc.result.alert_level \in {"HIGH", "MEDIUM", "LOW"}
       /\ calc.result.alert_level =
            IF rec.exit_signal THEN "HIGH"
            ELSE IF \/ rec.action = "REVIEW POSITION" /\ gain * 10 > entry
                    \/ gain * 10 < -entry /\ rsi < 40
            THEN "MEDIUM"
            ELSE "LOW"

\* a position 10 percent down, neither more nor less, was analysed at an
\* rsi below 40 and given LOW
C17_Witness ==
  /\ calc.op = "analyze_for_exit_signal"
  /\ calc.done
  /\ calc.args.rsi_value < 40
  /\ (calc.args.current_price - calc.args.entry_price) * 10
       = -calc.args.entry_price
  /\ calc.result.alert_level = "LOW"

\* C18: the session clock gives Saturday and Sunday CLOSED; on the other
\* days CLOSED before 04:00, PRE_MARKET from 04:00 to before 09:30, OPEN
\* from 09:30 to before 16:00, AFTER_HOURS from 16:00 to before 20:00, and
\* CLOSED from 20:00
C18_SessionTable ==
  (calc.op = "get_market_status" /\ calc.done) =>
    LET d == calc.args.weekday
        m == calc.args.minute
    IN calc.result.status =
         IF d \in {5, 6} THEN "CLOSED"
         ELSE IF m < 4 * 60 THEN "CLOSED"
         ELSE IF m < 9 * 60 + 30 THEN "PRE_MARKET"
         ELSE IF m < 16 * 60 THEN "OPEN"
         ELSE IF m < 20 * 60 THEN "AFTER_HOURS"
         ELSE "CLOSED"

\* the clock was read at 16:00 sharp on a weekday
C18_Witness ==
  /\ calc.op = "get_market_status"
  /\ calc.done
  /\ calc.args.weekday < 5
  /\ calc.args.minute = 16 * 60
  /\ calc.result.status = "AFTER_HOURS"

\* the weekday of the session a "next session" text names when read at now
NextSessionDay(now, text) ==
  CASE text = "Monday 9:30 AM EST" -> 0
    [] text = "Tomorrow 4:00 AM EST" -> (now.weekday + 1) % 7
    [] OTHER -> now.weekday

\* C19: the next session the clock names is never on a Saturday or Sunday;
\* read on a Saturday or Sunday, or on a Friday from 16:00, it is on Monday,
\* and on a Saturday or Sunday the state is CLOSED and the session named is
\* Monday 9:30
C19_NextSessionSkipsWeekend ==
  (calc.op = "get_market_status" /\ calc.done) =>
    LET now == calc.args
        day == NextSessionDay(now, calc.result.next_session)
    IN /\ day \notin {5, 6}
       /\ (now.weekday \in {5, 6}
           \/ (now.weekday = 4 /\ now.minute >= 16 * 60)) => day = 0
       /\ now.weekday \in {5, 6} =>
            /\ calc.result.status = "CLOSED"
            /\ calc.result.next_session = "Monday 9:30 AM EST"

\* no price of the series has fallen up to bar i: the average loss is 0
NoFallUpTo(prices, i) == \A j \in 2 .. i : prices[j] >= prices[j - 1]

\* C20: past the first period - 1 bars, every value calculate_rsi gives is
\* a number from 0 to 100, and it is 100 at every bar whose average loss is
\* 0, also when the average gain is 0 too
C20_RsiSaturatesInRange ==
  (calc.op = "calculate_rsi" /\ calc.done) =>
    \A i \in DOMAIN calc.result :
      i >= calc.args.period =>
        /\ calc.result[i].kind = "number"
        /\ 0 <= calc.result[i].num
        /\ calc.result[i].num <= 100 * calc.result[i].den
        /\ NoFallUpTo(calc.args.prices, i)
             => calc.result[i].num = 100 * calc.result[i].den

\* C21: a trade that remove_trade has moved to the history is changed by no
\* later step
C21_ClosedTradeNeverMutated ==
  [][\A r \in DOMAIN objs : InHistory(r) => objs'[r] = objs[r]]_vars

\* C22: no trade a caller can read holds a current price its derived fields
\* do not yet follow: no tick stands between the assignment of a trade's
\* current_price and the valuation that changes its current_value,
\* pnl_dollar or pnl_percent
C22_PriceAndPnlChangeTogether ==
  \A t \in ThreadIds :
    (threads[t].pc = "pnl" /\ threads[t].cur \in LiveRefs) =>
      Derived(update_trade_pnl(objs[threads[t].cur]).trade)
        = Derived(objs[threads[t].cur])

\* the live trades, other than the one at reference r, that the tick of
\* thread t has a retrieved price for and has not reached in its update loop
PendingPriced(t, r) ==
  {active_trades[i] : i \in NextEntries(t)} \cap
  {q \in LiveRefs \ {r} : threads[t].price_data[objs[q].symbol] # None}

\* the live trades, other than the one at position i, that the alert loop
\* of thread t has not reached
PendingAlerts(t, i) == {active_trades[j] : j \in NextEntries(t) \ {i}}

\* C23: a tick gives up in its update loop or in its alert loop only when
\* no other active trade is left to update or to check: the failure of one
\* trade costs no other trade its update or its alert check
C23_FailureOfOneTradeSparesOthers ==
  [][\A t \in ThreadIds :
       /\ (threads[t].pc = "pnl" /\ threads'[t].pc = "sleep") =>
            /\ PendingPriced(t, threads[t].cur) = {}
            /\ \A q \in LiveRefs \ {threads[t].cur} :
                 threads[t].price_data[objs[q].symbol] # None =>
                   ~objs[q].alerts_enabled
       /\ (threads[t].pc = "alerts" /\ threads'[t].pc = "sleep"
             /\ NextEntries(t) # {}) =>
            PendingAlerts(t, MinOf(NextEntries(t))) = {}]_vars

\* the alert loop of thread t is about to analyse a trade with alerts on
\* whose technical snapshot is empty
AtEmptySnapshot(t) ==
  /\ threads[t].pc = "alerts"
  /\ threads[t].used = ma_used
  /\ NextEntries(t) # {}
  /\ LET trade == objs[active_trades[MinOf(NextEntries(t))]]
     IN trade.alerts_enabled /\ analyze_technical_setup(trade.symbol).empty

\* C24: a trade whose technical snapshot is empty is skipped: the alert loop
\* raises nothing and sends nothing for it, and goes on to the trades after
\* it
C24_EmptySnapshotSkipsTrade ==
  [][\A t \in ThreadIds :
       (AtEmptySnapshot(t) /\ threads'[t] # threads[t]) =>
         /\ threads'[t].pc = "alerts"
         /\ threads'[t].pos = MinOf(NextEntries(t)) + 1
         /\ threads'[t].sent = threads[t].sent]_vars

\* the next step of the tick of thread t raises: the valuation divides by
\* zero, the analysis has no alert level, or the dict changed size under
\* the iterator
AboutToRaise(t) ==
  \/ threads[t].pc = "pnl"
       /\ update_trade_pnl(objs[threads[t].cur]).raised # "no"
  \/ AtEmptySnapshot(t)
  \/ threads[t].pc \in {"update", "alerts"} /\ threads[t].used # ma_used

\* C25: a tick that raises does not end the loop: the thread leaves a tick
\* only for its sleep, and while monitoring is not stopped a loop whose tick
\* raises comes to the gate of a later tick
C25_RaisingTickKeepsLoopRunning ==
  /\ [][\A t \in ThreadIds :
          threads[t].pc \in WorkPcs =>
            threads'[t].pc \in WorkPcs \cup {"sleep"}]_vars
  /\ \A t \in ThreadIds :
       AboutToRaise(t) ~> (threads[t].pc = "gate" \/ ~monitoring_active)

\* a loop asleep while monitoring is on, after a tick whose valuation of a
\* trade with no contracts raised
C25_Witness ==
  /\ monitoring_active
  /\ \E t \in ThreadIds : threads[t].pc = "sleep"
  /\ \E r \in LiveRefs :
       /\ objs[r].contracts = 0
       /\ objs[r].current_price \in FetchedPrices \ ClosePrices
       /\ objs[r].current_price > 0

\* the price the tick of thread t has retrieved for the trade at r, None
\* when the fetch of its symbol failed
FetchedFor(t, r) == threads[t].price_data[objs[r].symbol]

\* C26: in a tick, a trade whose symbol has no retrieved price keeps every
\* field, and when the update loop of the tick is over every active trade
\* on a retrieved symbol holds the one price retrieved for that symbol
C26_AbsentSymbolOnlySkipped ==
  [][\A t \in ThreadIds :
       threads[t].pc \in {"update", "pnl"} =>
         /\ \A r \in DOMAIN objs :
              FetchedFor(t, r) = None => objs'[r] = objs[r]
         /\ threads'[t].pc \notin {"update", "pnl"} =>
              \A r \in LiveRefs :
                FetchedFor(t, r) # None =>
                  objs'[r].current_price = FetchedFor(t, r)]_vars

\* C27: at most one monitoring loop is alive at any time
C27_AtMostOneLoop == Cardinality(RunningLoops) <= 1

\* no two loops are inside a tick at once
NoTwoLoopsTicking ==
  ~(\E t, u \in DOMAIN threads :
      t # u /\ threads[t].pc \in WorkPcs /\ threads[u].pc \in WorkPcs)

\* C28: a call of add_trade leaves monitoring_active true and the thread of
\* monitor_thread alive, whether monitoring was never started, was running,
\* or had been stopped before the call
C28_AddTradeLeavesLoopRunning ==
  [][Len(objs') = Len(objs) + 1 =>
       /\ monitoring_active'
       /\ monitor_thread' \in DOMAIN threads'
       /\ threads'[monitor_thread'].pc # "none"]_vars

\* monitoring restarted for a second trade while the loop stopped before is
\* still asleep
C28_Witness ==
  /\ Len(objs) = 2
  /\ monitoring_active
  /\ ~stop_requested
  /\ monitor_thread = 2
  /\ threads[2].pc = "check"
  /\ threads[1].pc = "sleep"

\* C29: no trade id is both in active_trades and in trade_history, no trade
\* is in trade_history twice, and the trades opened so far are those in
\* active_trades and those in trade_history
C29_ActiveAndHistoryPartition ==
  /\ \A r \in LiveRefs : \A i \in DOMAIN trade_history :
       objs[r].trade_id # objs[trade_history[i]].trade_id
  /\ \A i, j \in DOMAIN trade_history :
       i # j => trade_history[i] # trade_history[j]
  /\ Len(objs) = ma_used + Len(trade_history)

\* C30: read at the same instant, is_market_open is true exactly when the
\* session clock says OPEN, that is on Monday to Friday from 09:30 to
\* before 16:00
C30_GateAgreesWithSessionClock ==
  (calc.op = "market_clocks" /\ calc.done) =>
    /\ calc.result.is_open <=> calc.result.status = "OPEN"
    /\ calc.result.is_open <=>
         /\ calc.args.weekday < 5
         /\ 9 * 60 + 30 <= calc.args.minute
         /\ calc.args.minute < 16 * 60
====
